---- MODULE Spec2Model ----
(***************************************************************************)
(* A model of literate.py (src/src/literate.py): the extraction engine     *)
(* Language.extract, its helpers and the output assembly Language._output. *)
(*                                                                         *)
(* Texts are sequences of one-character strings.  Offsets are Python's:    *)
(* 0-based, a slice text[a:b] holds the characters at offsets a..b-1.      *)
(* A regular-expression match is a record [start, end]; NoMatch stands for *)
(* Python's None.                                                          *)
(***************************************************************************)
EXTENDS Integers, Sequences, FiniteSets, TLC

\* ------------------------------------------------------------------------
\* Bounds of the model
\* ------------------------------------------------------------------------

\* The longest input, counted in pieces (see Texts).
MaxPieces == 4

\* The pieces of the text of a call that runs beside another call
MaxPairPieces == 1

\* The interpreter's recursion limit (sys.getrecursionlimit(), 1000 by
\* default), scaled down: the deepest nesting of _output generators allowed.
RecursionLimit == 6

\* ------------------------------------------------------------------------
\* Characters and strings
\* ------------------------------------------------------------------------

Max(a, b) == IF a >= b THEN a ELSE b

\* Python's text[o]
At(text, o) == text[o + 1]

\* Python's text[a:b], 0 <= a: empty when a >= b, b clamped to the length
Slice(text, a, b) ==
    IF a >= b THEN <<>>
    ELSE SubSeq(text, a + 1, IF b > Len(text) THEN Len(text) ELSE b)

\* Python's text[a:]
SliceFrom(text, a) == SubSeq(text, a + 1, Len(text))

\* text.startswith(pat, o)
StartsWithAt(text, o, pat) ==
    /\ o + Len(pat) <= Len(text)
    /\ \A k \in 1..Len(pat) : text[o + k] = pat[k]

\* text.find(pat, from): the least offset >= from where pat occurs, or -1
RECURSIVE Find(_, _, _)
Find(text, pat, from) ==
    IF from + Len(pat) > Len(text) THEN -1
    ELSE IF StartsWithAt(text, from, pat) THEN from
    ELSE Find(text, pat, from + 1)

\* The class \s of Python's re
Whitespace == {" ", "\t", "\n", "\r"}

\* The class [ \t]
Blank == {" ", "\t"}

\* The class [A-Z]
Upper == {"A", "B", "C", "D", "E", "F", "G", "H", "I", "J", "K", "L", "M",
          "N", "O", "P", "Q", "R", "S", "T", "U", "V", "W", "X", "Y", "Z"}

\* The class [0-9]
Digit == {"0", "1", "2", "3", "4", "5", "6", "7", "8", "9"}

\* The class [A-Z0-9_\-]
NameChar == Upper \cup Digit \cup {"_", "-"}

\* The end of the longest run of characters of class cls that starts at o
\* (what a greedy cls* consumes).
RECURSIVE SkipClass(_, _, _)
SkipClass(text, o, cls) ==
    IF o < Len(text) /\ text[o + 1] \in cls THEN SkipClass(text, o + 1, cls) ELSE o

NoMatch == [start |-> -1, end |-> -1]

IsMatch(m) == m.start >= 0

\* "\n".join(lines)
RECURSIVE JoinLines(_)
JoinLines(lines) ==
    IF lines = <<>> THEN <<>>
    ELSE IF Len(lines) = 1 THEN lines[1]
    ELSE lines[1] \o <<"\n">> \o JoinLines(Tail(lines))

\* text.split("\n")
RECURSIVE SplitLines(_)
SplitLines(text) ==
    LET n == Find(text, <<"\n">>, 0)
    IN  IF n < 0 THEN <<text>>
        ELSE <<Slice(text, 0, n)>> \o SplitLines(SliceFrom(text, n + 1))

\* "".join(fragments)
RECURSIVE Join(_)
Join(frags) == IF frags = <<>> THEN <<>> ELSE frags[1] \o Join(Tail(frags))

\* text.replace(old, new), from offset o on
RECURSIVE ReplaceFrom(_, _, _, _)
ReplaceFrom(text, o, old, new) ==
    IF o >= Len(text) THEN <<>>
    ELSE IF StartsWithAt(text, o, old)
         THEN new \o ReplaceFrom(text, o + Len(old), old, new)
         ELSE <<At(text, o)>> \o ReplaceFrom(text, o + 1, old, new)

Replace(text, old, new) == ReplaceFrom(text, 0, old, new)

\* ------------------------------------------------------------------------
\* The directive grammar: RE_COMMAND_*, COMMANDS
\* ------------------------------------------------------------------------

MAIN == <<"M", "A", "I", "N">>

PASTE == <<"P", "A", "S", "T", "E">>
CUT == <<"C", "U", "T">>
END == <<"E", "N", "D">>
VERBATIM == <<"V", "E", "R", "B", "A", "T", "I", "M">>
START == <<"S", "T", "A", "R", "T">>

NoCommand == [cmd |-> <<>>, arg |-> <<>>]

\* The grammar matched without regard to case (re.IGNORECASE)
MatchNamed_AnyCase(text, keyword) ==
    LET k == SkipClass(text, 0, Whitespace)
        n == k + Len(keyword) + 1
        letters == Upper \cup {"a", "b", "x", "y", "z"}
    IN  IF /\ StartsWithAt(text, k, keyword \o <<":">>)
           /\ n < Len(text)
           /\ At(text, n) \in letters
        THEN [cmd |-> keyword,
              arg |-> Slice(text, n, SkipClass(text, n + 1, NameChar \cup letters))]
        ELSE NoCommand

\* regexp.match(text) for "\s*(KEYWORD):([A-Z][A-Z0-9_\-]*[A-Z0-9]?)": the match
\* is anchored at the start of the text only.  The greedy star takes the whole
\* run of name characters, the optional last character nothing.
MatchNamed(text, keyword) ==
    LET k == SkipClass(text, 0, Whitespace)
        n == k + Len(keyword) + 1
    IN  IF /\ StartsWithAt(text, k, keyword \o <<":">>)
           /\ n < Len(text)
           /\ At(text, n) \in Upper
        THEN [cmd |-> keyword, arg |-> Slice(text, n, SkipClass(text, n + 1, NameChar))]
        ELSE NoCommand

RE_COMMAND_PASTE(text) == MatchNamed(text, PASTE)

RE_COMMAND_CUT(text) == MatchNamed(text, CUT)

RE_COMMAND_END(text) == MatchNamed(text, END)

\* regexp.match(text) for "\s*(VERBATIM):(START|END)"
RE_COMMAND_VERBATIM(text) ==
    LET k == SkipClass(text, 0, Whitespace)
        n == k + Len(VERBATIM) + 1
    IN  IF ~StartsWithAt(text, k, VERBATIM \o <<":">>) THEN NoCommand
        ELSE IF StartsWithAt(text, n, START) THEN [cmd |-> VERBATIM, arg |-> START]
        ELSE IF StartsWithAt(text, n, END) THEN [cmd |-> VERBATIM, arg |-> END]
        ELSE NoCommand

\* Language.command: the first of the COMMANDS that matches, or None
Command(text) ==
    IF RE_COMMAND_PASTE(text) # NoCommand THEN RE_COMMAND_PASTE(text)
    ELSE IF RE_COMMAND_CUT(text) # NoCommand THEN RE_COMMAND_CUT(text)
    ELSE IF RE_COMMAND_END(text) # NoCommand THEN RE_COMMAND_END(text)
    ELSE RE_COMMAND_VERBATIM(text)

\* ------------------------------------------------------------------------
\* The language profiles: class C (JavaScript), class Python (Sugar, Paml)
\* ------------------------------------------------------------------------

Languages == {"C", "Python"}

\* Language.LINE_BASED
LINE_BASED(lang) == lang = "Python"

\* RE_START: "/\*\*" for C, "\{\{\{" for Python
StartDelimiter(lang) == IF lang = "C" THEN <<"/", "*", "*">> ELSE <<"{", "{", "{">>

\* The closing characters of RE_END: "\*/" for C, "}}}" for Python
EndDelimiter(lang) == IF lang = "C" THEN <<"*", "/">> ELSE <<"}", "}", "}">>

\* Language.ESCAPE: the (old, new) pairs, in order
ESCAPE(lang) ==
    IF lang = "C"
    THEN << <<(<<"\\", "*", "\\", "/">>), (<<"*", "/">>)>> >>
    ELSE << <<(<<"\\", "}", "\\", "}", "\\", "}">>), (<<"}", "}", "}">>)>>,
            <<(<<"\\", "\"", "\\", "\"", "\\", "\"">>), (<<"\"", "\"", "\"">>)>> >>

\* start.finditer(text), resumed at offset from: the next match of RE_START
SearchStart(lang, text, from) ==
    LET o == Find(text, StartDelimiter(lang), from)
    IN  IF o < 0 THEN NoMatch ELSE [start |-> o, end |-> o + Len(StartDelimiter(lang))]

\* RE_END.match at offset o.  C: "\*/".  Python: "\s*\#?\s*}}}", whose greedy
\* classes leave one way to match.
MatchEndAt(lang, text, o) ==
    IF lang = "C"
    THEN IF StartsWithAt(text, o, EndDelimiter(lang))
         THEN [start |-> o, end |-> o + Len(EndDelimiter(lang))] ELSE NoMatch
    ELSE LET a == SkipClass(text, o, Whitespace)
             b == IF a < Len(text) /\ At(text, a) = "#" THEN a + 1 ELSE a
             c == SkipClass(text, b, Whitespace)
         IN  IF StartsWithAt(text, c, EndDelimiter(lang))
             THEN [start |-> o, end |-> c + Len(EndDelimiter(lang))] ELSE NoMatch

\* A search that takes the end of the text for an end delimiter
RECURSIVE SearchEnd_OrEndOfText(_, _, _)
SearchEnd_OrEndOfText(lang, text, from) ==
    IF from >= Len(text) THEN [start |-> Len(text), end |-> Len(text)]
    ELSE LET m == MatchEndAt(lang, text, from)
         IN  IF IsMatch(m) THEN m ELSE SearchEnd_OrEndOfText(lang, text, from + 1)

\* end.search(text, from): the leftmost match of RE_END at or after from
RECURSIVE SearchEnd(_, _, _)
SearchEnd(lang, text, from) ==
    IF from > Len(text) THEN NoMatch
    ELSE LET m == MatchEndAt(lang, text, from)
         IN  IF IsMatch(m) THEN m ELSE SearchEnd(lang, text, from + 1)

\* RE_STRIP.match(line), the offset where the match ends, or -1.
\* C: "[ \t]*\*[ \t]?".  Python: "^\s*[\|#]\s?".
StripMatchEnd(lang, line, o) ==
    LET cls  == IF lang = "C" THEN Blank ELSE Whitespace
        mark == IF lang = "C" THEN {"*"} ELSE {"|", "#"}
        q    == SkipClass(line, o, cls)
    IN  IF q < Len(line) /\ At(line, q) \in mark
        THEN IF q + 1 < Len(line) /\ At(line, q + 1) \in cls THEN q + 2 ELSE q + 1
        ELSE -1

\* extract, lines 288-292: every line loses the prefix RE_STRIP matches
RECURSIVE StripLines(_, _)
StripLines(lang, lines) ==
    IF lines = <<>> THEN <<>>
    ELSE LET m == StripMatchEnd(lang, lines[1], 0)
         IN  <<IF m >= 0 THEN SliceFrom(lines[1], m) ELSE lines[1]>>
                 \o StripLines(lang, Tail(lines))

\* extract, line 295: "".join(strip.split(t)), the text without the matches
\* of RE_STRIP
RECURSIVE StripAll(_, _, _)
StripAll(lang, t, o) ==
    IF o >= Len(t) THEN <<>>
    ELSE LET m == StripMatchEnd(lang, t, o)
         IN  IF m >= 0 THEN StripAll(lang, t, m)
             ELSE <<At(t, o)>> \o StripAll(lang, t, o + 1)

RECURSIVE ApplyEscapes(_, _)
ApplyEscapes(t, escape) ==
    IF escape = <<>> THEN t
    ELSE ApplyEscapes(Replace(t, escape[1][1], escape[1][2]), Tail(escape))

\* extract, lines 284-296: the interior of a region, stripped, then with the
\* profile's escape pairs replaced
Processed(lang, interior) ==
    LET stripped == IF LINE_BASED(lang)
                    THEN JoinLines(StripLines(lang, SplitLines(interior)))
                    ELSE StripAll(lang, interior, 0)
    IN  ApplyEscapes(stripped, ESCAPE(lang))

\* Language._processBlock: RE_ESCAPE "\\." collapses a backslash and the
\* character after it (any but a newline) to that character
RECURSIVE ProcessBlockFrom(_, _)
ProcessBlockFrom(text, o) ==
    IF o >= Len(text) THEN <<>>
    ELSE IF At(text, o) = "\\" /\ o + 1 < Len(text) /\ At(text, o + 1) # "\n"
         THEN <<At(text, o + 1)>> \o ProcessBlockFrom(text, o + 2)
         ELSE <<At(text, o)>> \o ProcessBlockFrom(text, o + 1)

ProcessBlock(text) == ProcessBlockFrom(text, 0)

\* Language.EOLS
EOLS == {"\r", "\n"}

\* Language.SPACES
SPACES == {"\t", "\n"}

\* Language._deindent
RECURSIVE DeindentFrom(_, _, _)
DeindentFrom(line, indent, k) ==
    IF k < Len(indent) /\ k < Len(line) /\ line[k + 1] = indent[k + 1]
    THEN DeindentFrom(line, indent, k + 1)
    ELSE SliceFrom(line, k)

Deindent(line, indent) == DeindentFrom(line, indent, 0)

\* _processVerbatim, lines 340-350: the scan backwards from verbatimOffset - 1
\* to the start of the line; spaces holds the SPACES characters met since the
\* last character that is neither in SPACES nor in EOLS.
RECURSIVE LeadingIndent(_, _, _)
LeadingIndent(text, o, spaces) ==
    IF o < 0 \/ At(text, o) \in EOLS THEN spaces
    ELSE LeadingIndent(text, o - 1,
            IF At(text, o) \in SPACES THEN <<At(text, o)>> \o spaces ELSE <<>>)

RECURSIVE DeindentKept(_, _, _)
DeindentKept(lang, lines, indent) ==
    IF lines = <<>> THEN <<>>
    ELSE (IF StripMatchEnd(lang, lines[1], 0) >= 0 THEN <<>>
          ELSE <<Deindent(lines[1], indent)>>)
             \o DeindentKept(lang, Tail(lines), indent)

\* Language._processVerbatim
ProcessVerbatim(lang, text, startOffset, endOffset, verbatimOffset) ==
    LET spaces == LeadingIndent(text, verbatimOffset - 1, <<>>)
        raw    == Slice(text, startOffset, endOffset)
        block  == JoinLines(DeindentKept(lang, SplitLines(raw), spaces))
    IN  IF block # <<>> /\ block[1] = "\n" THEN Tail(block) ELSE block

\* ------------------------------------------------------------------------
\* The inputs: source texts built of at most MaxPieces pieces of one family
\* ------------------------------------------------------------------------

\* A literate region of the language with the given interior
Region(lang, interior) == StartDelimiter(lang) \o interior \o EndDelimiter(lang)

Directive(keyword, name) == keyword \o <<":">> \o name

\* CUT, END, PASTE and plain text: blocks cut, ended and pasted
BlockPieces(lang) ==
    { Region(lang, Directive(PASTE, <<"A">>)),
      Region(lang, Directive(CUT, <<"A">>)) \o Region(lang, <<"x">>),
      Region(lang, Directive(END, <<"A">>)),
      Region(lang, <<"y", "\n">>) }

\* A second block name, a paste of MAIN, an END of a block never cut
NamePieces(lang) ==
    { Region(lang, Directive(CUT, <<"B">>)),
      Region(lang, Directive(PASTE, <<"A">>)),
      Region(lang, Directive(PASTE, MAIN)),
      Region(lang, Directive(END, <<"A">>)),
      Region(lang, <<"x">>) }

\* Directives followed by prose, and keywords with a malformed argument
GrammarPieces(lang) ==
    { Region(lang, Directive(CUT, <<"A", " ", "z">>)),
      Region(lang, Directive(CUT, <<"a">>)),
      Region(lang, Directive(VERBATIM, <<"X">>)),
      Region(lang, Directive(PASTE, <<>>)),
      Region(lang, <<"x">>) }

\* Delimiters alone: unterminated, nested and overlapping ones
DelimiterPieces(lang) ==
    IF lang = "C"
    THEN { <<"/", "*", "*", "x">>, <<"*", "/">>, <<"*", "*">>, <<"x">> }
    ELSE { <<"{", "{", "{", "x">>, <<"}", "}", "}">>, <<" ", "#">>, <<"x">> }

\* Verbatim spans around source code, and an empty region
VerbatimPieces(lang) ==
    { Region(lang, Directive(VERBATIM, START)),
      Region(lang, Directive(VERBATIM, END)),
      <<"\t", "c", "\n">>,
      Region(lang, <<"x">>),
      Region(lang, <<>>) }

\* The escaped end delimiter of the language: a backslash before each of its
\* characters
EscapedEnd(lang) ==
    IF lang = "C" THEN <<"\\", "*", "\\", "/">>
    ELSE <<"\\", "}", "\\", "}", "\\", "}">>

\* Escaped end delimiters in and around regions
EscapePieces(lang) ==
    { StartDelimiter(lang), EscapedEnd(lang), EndDelimiter(lang), <<"a">> }

\* A line of decoration, which RE_STRIP matches
Decoration(lang) ==
    IF lang = "C" THEN <<" ", "*", " ", "d", "\n">> ELSE <<"#", " ", "d", "\n">>

\* Verbatim spans whose marker and code are indented with spaces or a tab
IndentPieces(lang) ==
    { <<" ", " ">> \o Region(lang, Directive(VERBATIM, START)) \o <<"\n">>,
      <<"\t">> \o Region(lang, Directive(VERBATIM, START)) \o <<"\n">>,
      <<" ", " ", "c", "\n">>,
      <<"\t", "c", "\n">>,
      Decoration(lang),
      Region(lang, Directive(VERBATIM, END)) }

\* Verbatim spans around source code that holds a backslash sequence
RawPieces(lang) ==
    { Region(lang, Directive(VERBATIM, START)),
      Region(lang, Directive(VERBATIM, END)),
      <<"\\", "n", "c", "\n">>,
      Region(lang, <<"x">>) }

\* Regions that begin with a newline, or are one
LeadingPieces(lang) ==
    { Region(lang, <<"\n", "x">>), Region(lang, <<"\n">>), Region(lang, <<"y">>) }

Families(lang) ==
    { BlockPieces(lang), NamePieces(lang), GrammarPieces(lang),
      DelimiterPieces(lang), VerbatimPieces(lang), EscapePieces(lang),
      IndentPieces(lang), RawPieces(lang), LeadingPieces(lang) }

Texts(lang) ==
    UNION { { Join(ps) : ps \in UNION {[1..n -> family] : n \in 0..MaxPieces} }
            : family \in Families(lang) }

\* ------------------------------------------------------------------------
\* The state of one call of Language.extract
\* ------------------------------------------------------------------------

VARIABLES
    lang,       \* the profile: the class of self
    newlines,   \* self.newlines
    strip,      \* self.strip
    text,       \* the argument text
    pc,         \* "scan": in the for loop; "output": in _output; "done"; "failed"
    pos,        \* where start.finditer(text) resumes
    i,          \* the index enumerate gives the next start match
    block,      \* the name of the list the local variable block refers to
    blocks,     \* the block table: name -> sequence of units
    last_end,   \* last_end
    verbatim,   \* verbatim; None is NoOffset
    stack,      \* the nested _output generators: [name, idx, from]
    out,        \* the fragments yielded so far
    err,        \* the exception extract raised, "none" if none
    hist,       \* history: one record for each accepted region
    sites,      \* history: the PASTE sites _output has walked through
    outFrom,    \* history: for each fragment of out, the block it came from
    args,       \* the options object the profile was constructed with
    filename,   \* run: the file p being processed, NoFile outside run
    language,   \* run: the class getLanguage selected, "None" for None
    tables,     \* the module-level tables COMMANDS and LANGUAGES
    other,      \* a second call of extract, suspended; NoCall if there is none
    alone       \* history: what the calls yielded when each ran alone

\* What is outside the frame of the running call
callerVars == <<args, filename, language, tables, other, alone>>

vars == <<lang, newlines, strip, text, pc, pos, i, block, blocks, last_end,
          verbatim, stack, out, err, hist, sites, outFrom, callerVars>>

scanVars == <<pos, i, block, blocks, last_end, verbatim, hist>>

\* verbatim = None
NoOffset == -1

\* The units of a block: a string, or the pair a PASTE command is
StrUnit(t) == [type |-> "str", val |-> t]

\* A PASTE resolved while scanning: the text the block holds so far
PasteUnit_Eager(command) ==
    StrUnit(IF command.arg \in DOMAIN blocks
            THEN Join([k \in 1..Len(blocks[command.arg]) |->
                         IF blocks[command.arg][k].type = "str"
                         THEN blocks[command.arg][k].val ELSE <<>>])
            ELSE <<>>)

PasteUnit(command) == [type |-> "PASTE", val |-> command.arg]

\* options = None
NoOptions == [given |-> FALSE, newlines |-> FALSE, strip |-> FALSE]

\* Language.__init__: options and options.newlines or True
InitNewlines(options) == (options.given /\ options.newlines) \/ TRUE

\* Language.__init__: options and options.strip or True
InitStrip(options) == (options.given /\ options.strip) \/ TRUE

\* An options object, as argparse or a caller makes it
AllOptions ==
    {NoOptions} \cup
    { [given |-> TRUE, newlines |-> n, strip |-> t] : n \in BOOLEAN, t \in BOOLEAN }

\* No file: extract called on a text, not through run
NoFile == <<>>

\* No second call
NoCall == [id |-> 0]

\* LANGUAGES, lines 530-536: each pattern is its alternatives; the classes in
\* the order of the dictionary
LANGUAGES ==
    << [pattern |-> {<<"c">>, <<"c", "p", "p">>, <<"h">>}, parser |-> "C"],
       [pattern |-> {<<"j", "s">>}, parser |-> "JavaScript"],
       [pattern |-> {<<"p", "y">>}, parser |-> "Python"],
       [pattern |-> {<<"s", "j", "s">>, <<"s", "p", "y">>}, parser |-> "Sugar"],
       [pattern |-> {<<"p", "a", "m", "l">>}, parser |-> "Paml"] >>

\* COMMANDS, lines 170-175: the names of the commands, in the order of the
\* dictionary
COMMANDS == <<PASTE, CUT, END, VERBATIM>>

\* The module-level tables as the import of the module leaves them
ModuleTables == [COMMANDS |-> COMMANDS, LANGUAGES |-> LANGUAGES]

\* extract, lines 273-276, on a profile made by __init__
InitWith(optionSet) ==
    /\ lang \in Languages
    /\ args \in optionSet
    /\ newlines = InitNewlines(args)
    /\ strip = InitStrip(args)
    /\ filename = NoFile
    /\ language = "None"
    /\ tables = ModuleTables
    /\ other = NoCall
    /\ alone = <<>>
    /\ text \in Texts(lang)
    /\ pc = "scan"
    /\ pos = 0
    /\ i = 0
    /\ block = MAIN
    /\ blocks = (MAIN :> <<>>)
    /\ last_end = -1
    /\ verbatim = NoOffset
    /\ stack = <<>>
    /\ out = <<>>
    /\ err = "none"
    /\ hist = <<>>
    /\ sites = <<>>
    /\ outFrom = <<>>

Init == InitWith({NoOptions})

\* ------------------------------------------------------------------------
\* The scan: one iteration of the for loop of extract
\* ------------------------------------------------------------------------

\* extract, line 283: not e or s.end() < last_end
Skipped(s, e, lastEnd) == ~IsMatch(e) \/ s.end < lastEnd

\* extract, lines 279-297: s, e, t and command of the iteration that starts
\* where finditer resumes
Iteration ==
    LET s == SearchStart(lang, text, pos)
        e == IF IsMatch(s) THEN SearchEnd(lang, text, s.end) ELSE NoMatch
        t == IF IsMatch(e) THEN Processed(lang, Slice(text, s.end, e.start)) ELSE <<>>
    IN  [s |-> s, e |-> e, t |-> t, command |-> Command(t)]

\* What an iteration leaves in the history
Entry(it, kind, units) ==
    [ i |-> i, sStart |-> it.s.start, sEnd |-> it.s.end, eStart |-> it.e.start,
      eEnd |-> it.e.end, t |-> it.t, kind |-> kind, arg |-> it.command.arg,
      target |-> block, marker |-> verbatim, units |-> units ]

\* list.append of units to the current block
AppendUnits(units) == [blocks EXCEPT ![block] = @ \o units]

\* The end of every iteration that is not skipped: line 322
Accept(it, kind, units) ==
    /\ hist' = Append(hist, Entry(it, kind, units))
    /\ last_end' = it.e.end
    /\ pos' = it.s.end
    /\ i' = i + 1
    /\ UNCHANGED <<callerVars, lang, newlines, strip, text, pc, stack, out, err, sites, outFrom>>

\* An exception raised inside the loop
Raise(it, exception, units) ==
    /\ pc' = "failed"
    /\ err' = exception
    /\ blocks' = AppendUnits(units)
    /\ hist' = Append(hist, Entry(it, "raise", units))
    /\ UNCHANGED <<callerVars, lang, newlines, strip, text, pos, i, block, last_end, verbatim,
                   stack, out, sites, outFrom>>

\* extract, line 283: continue
ScanSkip(it) ==
    /\ Skipped(it.s, it.e, last_end)
    /\ pos' = it.s.end
    /\ i' = i + 1
    /\ UNCHANGED <<callerVars, lang, newlines, strip, text, pc, block, blocks, last_end, verbatim,
                   stack, out, err, hist, sites, outFrom>>

\* extract, lines 299-300: the raw text of the open verbatim span
VerbatimBefore(s) ==
    IF verbatim # NoOffset /\ verbatim # 0
    THEN <<StrUnit(ProcessBlock(Slice(text, Max(verbatim, last_end), s.start)))>>
    ELSE <<>>

\* extract, line 302: t[0] is read when the three conditions before it hold
ReadsFirstOfT(before) == strip /\ i = 0 /\ Len(before) = 0

\* extract, line 305: block[-1][-1] is read when the four conditions before it hold
ReadsLastOfBlock(before) ==
    /\ newlines
    /\ i > 0
    /\ Len(before) > 0
    /\ before[Len(before)].type = "str"

\* extract, lines 298-306: the units a region that is no command appends to
\* the current block, whose units so far are cur; raises is TRUE when an index
\* is out of range on the way
Literal(cur, s, t) ==
    LET v      == VerbatimBefore(s)
        b1     == cur \o v
        t1     == IF ReadsFirstOfT(b1) /\ t # <<>> /\ t[1] = "\n" THEN Tail(t) ELSE t
        last   == b1[Len(b1)].val
        nl     == IF ReadsLastOfBlock(b1) /\ last # <<>> /\ last[Len(last)] # "\n"
                  THEN <<StrUnit(<<"\n">>)>> ELSE <<>>
    IN  IF ReadsFirstOfT(b1) /\ t = <<>>
        THEN [raises |-> TRUE, units |-> v]
        ELSE IF ReadsLastOfBlock(b1) /\ last = <<>>
        THEN [raises |-> TRUE, units |-> v]
        ELSE [raises |-> FALSE, units |-> v \o nl \o <<StrUnit(ProcessBlock(t1))>>]

\* extract, lines 298-306
ScanLiteral(it) ==
    /\ ~Skipped(it.s, it.e, last_end)
    /\ it.command = NoCommand
    /\ \E literal \in {Literal(blocks[block], it.s, it.t)} :
           /\ ~literal.raises
           /\ blocks' = AppendUnits(literal.units)
           /\ UNCHANGED <<block, verbatim>>
           /\ Accept(it, "literal", literal.units)

\* extract, lines 302 and 305: t[0] of an empty t, block[-1][-1] of an empty
\* block[-1]
ScanLiteralIndexError(it) ==
    /\ ~Skipped(it.s, it.e, last_end)
    /\ it.command = NoCommand
    /\ \E literal \in {Literal(blocks[block], it.s, it.t)} :
           /\ literal.raises
           /\ Raise(it, "IndexError", literal.units)

\* A CUT that starts the block anew: blocks[name] = []
SetDefault_Reset(table, name) == (name :> <<>>) @@ table

\* blocks.setdefault(name, [])
SetDefault(table, name) ==
    IF name \in DOMAIN table THEN table ELSE table @@ (name :> <<>>)

\* A CUT that creates the block and leaves the current one as it is
CutTarget_Kept(cur, command) == cur

\* extract, lines 307-308: the block CUT makes the current one
CutTarget(cur, command) == command.arg

\* extract, lines 307-308
ScanCut(it) ==
    /\ ~Skipped(it.s, it.e, last_end)
    /\ it.command.cmd = CUT
    /\ blocks' = SetDefault(blocks, it.command.arg)
    /\ block' = CutTarget(block, it.command)
    /\ UNCHANGED verbatim
    /\ Accept(it, "CUT", <<>>)

\* An END that ends the cut of the block it names only
EndTarget_Matching(cur, command) == IF command.arg = cur THEN MAIN ELSE cur

\* extract, lines 309-310: the block END makes the current one
EndTarget(cur, command) == MAIN

\* extract, lines 309-310
ScanEnd(it) ==
    /\ ~Skipped(it.s, it.e, last_end)
    /\ it.command.cmd = END
    /\ block' = EndTarget(block, it.command)
    /\ UNCHANGED <<blocks, verbatim>>
    /\ Accept(it, "END", <<>>)

\* extract, lines 311-312
ScanPaste(it) ==
    /\ ~Skipped(it.s, it.e, last_end)
    /\ it.command.cmd = PASTE
    /\ blocks' = AppendUnits(<<PasteUnit(it.command)>>)
    /\ UNCHANGED <<block, verbatim>>
    /\ Accept(it, "PASTE", <<PasteUnit(it.command)>>)

\* A VERBATIM:START that leaves the marker of an open span as it is
VerbatimMarker_FirstWins(cur, e) == IF cur # NoOffset THEN cur ELSE e.end

\* extract, line 315: verbatim = e.end(), whatever verbatim was
VerbatimMarker(cur, e) == e.end

\* extract, lines 313-315
ScanVerbatimStart(it) ==
    /\ ~Skipped(it.s, it.e, last_end)
    /\ it.command.cmd = VERBATIM
    /\ it.command.arg = START
    /\ verbatim' = VerbatimMarker(verbatim, it.e)
    /\ UNCHANGED <<block, blocks>>
    /\ Accept(it, "VERBATIM:START", <<>>)

\* extract, lines 316-319
ScanVerbatimEnd(it) ==
    /\ ~Skipped(it.s, it.e, last_end)
    /\ it.command.cmd = VERBATIM
    /\ it.command.arg # START
    /\ verbatim # NoOffset
    /\ \E unit \in {StrUnit(ProcessVerbatim(lang, text, Max(verbatim, last_end),
                                            it.s.start, verbatim))} :
           /\ blocks' = AppendUnits(<<unit>>)
           /\ verbatim' = NoOffset
           /\ UNCHANGED block
           /\ Accept(it, "VERBATIM:END", <<unit>>)

\* extract, line 318: max(None, last_end) raises TypeError
ScanVerbatimEndTypeError(it) ==
    /\ ~Skipped(it.s, it.e, last_end)
    /\ it.command.cmd = VERBATIM
    /\ it.command.arg # START
    /\ verbatim = NoOffset
    /\ Raise(it, "TypeError", <<>>)

\* extract, lines 320-321: a command that is none of the four.  Command gives
\* no such command, so the branch is never taken.
ScanUnsupported(it) ==
    /\ ~Skipped(it.s, it.e, last_end)
    /\ it.command # NoCommand
    /\ it.command.cmd \notin {CUT, END, PASTE, VERBATIM}
    /\ Raise(it, "Exception", <<>>)

\* One iteration of the for loop of extract, lines 279-322
Scan ==
    /\ pc = "scan"
    /\ \E it \in {Iteration} :
           /\ IsMatch(it.s)
           /\ \/ ScanSkip(it)
              \/ ScanLiteral(it)
              \/ ScanLiteralIndexError(it)
              \/ ScanCut(it)
              \/ ScanEnd(it)
              \/ ScanPaste(it)
              \/ ScanVerbatimStart(it)
              \/ ScanVerbatimEnd(it)
              \/ ScanVerbatimEndTypeError(it)
              \/ ScanUnsupported(it)

\* The for loop is exhausted; extract, line 323: _output(blocks["MAIN"], blocks)
ScanFinished ==
    /\ pc = "scan"
    /\ ~IsMatch(SearchStart(lang, text, pos))
    /\ pc' = "output"
    /\ stack' = <<[name |-> MAIN, idx |-> 1, from |-> 0]>>
    /\ UNCHANGED <<callerVars, lang, newlines, strip, text, pos, i, block, blocks, last_end,
                   verbatim, out, err, hist, sites, outFrom>>

\* ------------------------------------------------------------------------
\* The output assembly: Language._output, a generator that recurses on PASTE
\* ------------------------------------------------------------------------

\* The innermost _output generator
Top == stack[Len(stack)]

\* Whether its for loop has a unit left
HasUnit == pc = "output" /\ Top.idx <= Len(blocks[Top.name])

\* line, the unit of this iteration
Unit == blocks[Top.name][Top.idx]

\* A table that holds the cut blocks only, MAIN being kept apart
Defined_CutOnly(table, name) == name \in DOMAIN table \ {MAIN}

\* _output, line 371: blocks[line[1]] is a lookup by key
Defined(table, name) == name \in DOMAIN table

Advance(frames) == [frames EXCEPT ![Len(frames)].idx = @ + 1]

\* _output, lines 368-369: yield line
OutputYield ==
    /\ HasUnit
    /\ Unit.type = "str"
    /\ out' = Append(out, Unit.val)
    /\ outFrom' = Append(outFrom, Top.name)
    /\ stack' = Advance(stack)
    /\ UNCHANGED <<callerVars, lang, newlines, strip, text, pc, err, sites>>
    /\ UNCHANGED scanVars

\* _output, lines 370-371: the nested generator of the pasted block starts
OutputPaste ==
    /\ HasUnit
    /\ Unit.type = "PASTE"
    /\ Defined(blocks, Unit.val)
    /\ Len(stack) < RecursionLimit
    /\ stack' = Append(stack, [name |-> Unit.val, idx |-> 1, from |-> Len(out)])
    /\ UNCHANGED <<callerVars, lang, newlines, strip, text, pc, out, err, sites, outFrom>>
    /\ UNCHANGED scanVars

\* _output, line 371: blocks[line[1]] raises KeyError
OutputKeyError ==
    /\ HasUnit
    /\ Unit.type = "PASTE"
    /\ ~Defined(blocks, Unit.val)
    /\ pc' = "failed"
    /\ err' = "KeyError"
    /\ UNCHANGED <<callerVars, lang, newlines, strip, text, stack, out, sites, outFrom>>
    /\ UNCHANGED scanVars

\* _output, line 371: the nesting of generators passes the recursion limit
OutputRecursionError ==
    /\ HasUnit
    /\ Unit.type = "PASTE"
    /\ Defined(blocks, Unit.val)
    /\ Len(stack) >= RecursionLimit
    /\ pc' = "failed"
    /\ err' = "RecursionError"
    /\ UNCHANGED <<callerVars, lang, newlines, strip, text, stack, out, sites, outFrom>>
    /\ UNCHANGED scanVars

\* A nested generator is exhausted: the for loop of line 371 ends
OutputReturn ==
    /\ pc = "output"
    /\ ~HasUnit
    /\ Len(stack) > 1
    /\ sites' = Append(sites, [name |-> Top.name, from |-> Top.from, to |-> Len(out)])
    /\ stack' = Advance(SubSeq(stack, 1, Len(stack) - 1))
    /\ UNCHANGED <<callerVars, lang, newlines, strip, text, pc, out, err, outFrom>>
    /\ UNCHANGED scanVars

\* The generator of MAIN is exhausted: extract returns
OutputDone ==
    /\ pc = "output"
    /\ ~HasUnit
    /\ Len(stack) = 1
    /\ pc' = "done"
    /\ stack' = <<>>
    /\ UNCHANGED <<callerVars, lang, newlines, strip, text, out, err, sites, outFrom>>
    /\ UNCHANGED scanVars

Next ==
    \/ Scan
    \/ ScanFinished
    \/ OutputYield
    \/ OutputPaste
    \/ OutputKeyError
    \/ OutputRecursionError
    \/ OutputReturn
    \/ OutputDone

Spec == Init /\ [][Next]_vars

\* The same calls on a profile constructed with any options object
InitOptions == InitWith(AllOptions)

SpecOptions == InitOptions /\ [][Next]_vars

\* ------------------------------------------------------------------------
\* Two calls of extract whose steps are interleaved
\* ------------------------------------------------------------------------

\* The texts of the first call
PairTexts(l) ==
    UNION { { Join(ps) : ps \in UNION {[1..n -> family] : n \in 0..MaxPairPieces} }
            : family \in Families(l) }

\* The texts of the second call: two literal regions; a block pasted before it
\* is cut; a verbatim span
SecondTexts(l) ==
    { Region(l, <<"x">>) \o Region(l, <<"y">>),
      Region(l, Directive(PASTE, <<"A">>)) \o Region(l, Directive(CUT, <<"A">>))
          \o Region(l, <<"y">>),
      Region(l, Directive(VERBATIM, START)) \o <<"\t", "c", "\n">>
          \o Region(l, Directive(VERBATIM, END)) }

\* The frame of the running call: self, the argument and the locals of the
\* generator
Frame(id) ==
    [ id |-> id, lang |-> lang, newlines |-> newlines, strip |-> strip,
      text |-> text, pc |-> pc, pos |-> pos, i |-> i, block |-> block,
      blocks |-> blocks, last_end |-> last_end, verbatim |-> verbatim,
      stack |-> stack, out |-> out, err |-> err, hist |-> hist, sites |-> sites,
      outFrom |-> outFrom ]

\* The frame of a call of extract(t) on a new profile of class l, before its
\* first step: __init__ and lines 273-276
FreshFrame(id, l, t) ==
    [ id |-> id, lang |-> l, newlines |-> InitNewlines(NoOptions),
      strip |-> InitStrip(NoOptions), text |-> t, pc |-> "scan", pos |-> 0,
      i |-> 0, block |-> MAIN, blocks |-> (MAIN :> <<>>), last_end |-> -1,
      verbatim |-> NoOffset, stack |-> <<>>, out |-> <<>>, err |-> "none",
      hist |-> <<>>, sites |-> <<>>, outFrom |-> <<>> ]

\* A generator whose cursor last_end is kept outside its frame, on what the
\* calls share
Resumed_SharedCursor(frame) == [frame EXCEPT !.last_end = last_end]

\* What a suspended generator resumes with: the locals of extract are those
\* of its own frame
Resumed(frame) == frame

\* The call of the frame becomes the running one
Load(frame) ==
    /\ lang' = frame.lang
    /\ newlines' = frame.newlines
    /\ strip' = frame.strip
    /\ text' = frame.text
    /\ pc' = frame.pc
    /\ pos' = frame.pos
    /\ i' = frame.i
    /\ block' = frame.block
    /\ blocks' = frame.blocks
    /\ last_end' = frame.last_end
    /\ verbatim' = frame.verbatim
    /\ stack' = frame.stack
    /\ out' = frame.out
    /\ err' = frame.err
    /\ hist' = frame.hist
    /\ sites' = frame.sites
    /\ outFrom' = frame.outFrom

\* The running call is the one that is not suspended
Running == 3 - other.id

Ended(frame) == frame.pc \in {"done", "failed"}

\* Each call first runs alone, the first then the second; what it yielded is
\* kept and the call is made again
StartOver ==
    /\ other # NoCall
    /\ Len(alone) < 2
    /\ pc \in {"done", "failed"}
    /\ alone' = Append(alone, [lang |-> lang, out |-> out, err |-> err])
    /\ Load(Resumed(other))
    /\ other' = FreshFrame(Running, lang, text)
    /\ UNCHANGED <<args, filename, language, tables>>

\* The caller leaves the running generator suspended and steps the other one
Switch ==
    /\ other # NoCall
    /\ Len(alone) = 2
    /\ ~Ended(other)
    /\ Load(Resumed(other))
    /\ other' = Frame(Running)
    /\ UNCHANGED <<args, filename, language, tables, alone>>

InitTwo ==
    /\ \E l \in Languages : \E t \in PairTexts(l) :
          /\ lang = l
          /\ text = t
    /\ args = NoOptions
    /\ newlines = InitNewlines(args)
    /\ strip = InitStrip(args)
    /\ filename = NoFile
    /\ language = "None"
    /\ tables = ModuleTables
    /\ \E l \in Languages : \E t \in SecondTexts(l) : other = FreshFrame(2, l, t)
    /\ alone = <<>>
    /\ pc = "scan"
    /\ pos = 0
    /\ i = 0
    /\ block = MAIN
    /\ blocks = (MAIN :> <<>>)
    /\ last_end = -1
    /\ verbatim = NoOffset
    /\ stack = <<>>
    /\ out = <<>>
    /\ err = "none"
    /\ hist = <<>>
    /\ sites = <<>>
    /\ outFrom = <<>>

NextTwo == Next \/ StartOver \/ Switch

SpecTwo == InitTwo /\ [][NextTwo]_vars

\* ------------------------------------------------------------------------
\* run: the profile of a file is selected by its extension, then the file is
\* extracted
\* ------------------------------------------------------------------------

\* The offset of the last "." at or before o, -1 if there is none
RECURSIVE LastDot(_, _)
LastDot(name, o) ==
    IF o < 0 THEN -1
    ELSE IF At(name, o) = "." THEN o
    ELSE LastDot(name, o - 1)

\* getLanguage, line 539: filename.rsplit(".", 1)[-1], the whole name if it
\* has no "."
Extension(name) ==
    IF LastDot(name, Len(name) - 1) < 0 THEN name
    ELSE SliceFrom(name, LastDot(name, Len(name) - 1) + 1)

\* getLanguage, line 541: re.match(pattern, ext) matches when an alternative
\* of the pattern begins ext
PatternMatches(pattern, ext) == \E alt \in pattern : StartsWithAt(ext, 0, alt)

\* getLanguage, lines 540-543: the parser of the first pattern that matches
RECURSIVE GetLanguageFrom(_, _, _)
GetLanguageFrom(table, ext, n) ==
    IF n > Len(table) THEN "None"
    ELSE IF PatternMatches(table[n].pattern, ext) THEN table[n].parser
    ELSE GetLanguageFrom(table, ext, n + 1)

\* The class whose attributes the selected class has: JavaScript is C, Sugar
\* and Paml are Python
BaseProfile(class) == IF class \in {"C", "JavaScript"} THEN "C" ELSE "Python"

\* The extensions of the files run is given
Extensions ==
    { <<"c">>, <<"c", "p", "p">>, <<"h">>, <<"j", "s">>, <<"p", "y">>,
      <<"s", "j", "s">>, <<"s", "p", "y">>, <<"p", "a", "m", "l">>,
      <<"c", "x", "x">>, <<"h", "p", "p">>, <<"j", "s", "o", "n">>,
      <<"p", "y", "c">>, <<"t", "x", "t">>, <<"m", "d">>, <<"C">>, <<>> }

Filenames ==
    { stem \o <<".">> \o ext : stem \in {<<"a">>, <<"a", ".", "c">>}, ext \in Extensions }
        \cup { <<"c", "f", "g">>, <<"x">> }

\* The contents of the files
FileTexts(l) ==
    SecondTexts(l) \cup { Region(l, Directive(PASTE, MAIN)),
                          Region(l, Directive(PASTE, <<"A">>)) }

\* argparse, lines 594-595: store_true with default True
ParsedArgs == [given |-> TRUE, newlines |-> TRUE, strip |-> TRUE]

InitRun ==
    /\ filename \in Filenames
    /\ args = ParsedArgs
    /\ language = "None"
    /\ tables = ModuleTables
    /\ other = NoCall
    /\ alone = <<>>
    /\ lang = "None"
    /\ newlines = InitNewlines(args)
    /\ strip = InitStrip(args)
    /\ text = <<>>
    /\ pc = "run"
    /\ pos = 0
    /\ i = 0
    /\ block = MAIN
    /\ blocks = (MAIN :> <<>>)
    /\ last_end = -1
    /\ verbatim = NoOffset
    /\ stack = <<>>
    /\ out = <<>>
    /\ err = "none"
    /\ hist = <<>>
    /\ sites = <<>>
    /\ outFrom = <<>>

\* run, line 614, without --language: language = getLanguage(p, args)
GetLanguage ==
    /\ pc = "run"
    /\ language' = GetLanguageFrom(tables.LANGUAGES, Extension(filename), 1)
    /\ pc' = "selected"
    /\ UNCHANGED <<args, filename, tables, other, alone, lang, newlines, strip, text,
                   stack, out, err, sites, outFrom>>
    /\ UNCHANGED scanVars

\* run, line 615: assert language, "No language registered for file ..."
RunAssert ==
    /\ pc = "selected"
    /\ language = "None"
    /\ pc' = "failed"
    /\ err' = "AssertionError"
    /\ UNCHANGED <<callerVars, lang, newlines, strip, text, stack, out, sites, outFrom>>
    /\ UNCHANGED scanVars

\* run, lines 616-618: the file is read and extract is called on its text
RunExtract ==
    /\ pc = "selected"
    /\ language # "None"
    /\ lang' = BaseProfile(language)
    /\ text' \in FileTexts(BaseProfile(language))
    /\ pc' = "scan"
    /\ UNCHANGED <<callerVars, newlines, strip, stack, out, err, sites, outFrom>>
    /\ UNCHANGED scanVars

NextRun == GetLanguage \/ RunAssert \/ RunExtract \/ Next

SpecRun == InitRun /\ [][NextRun]_vars

\* ------------------------------------------------------------------------
\* Properties
\* ------------------------------------------------------------------------

Entries == 1..Len(hist)

Finished == pc = "done"

\* The fragments among units
RECURSIVE Fragments(_)
Fragments(units) ==
    IF units = <<>> THEN <<>>
    ELSE (IF units[1].type = "str" THEN <<units[1].val>> ELSE <<>>)
            \o Fragments(Tail(units))

\* What the regions of hist[from..] whose target was the block name put in
\* the output: the fragments of a literal or verbatim region, and for a
\* PASTE region all of the pasted block, to the given depth
RECURSIVE WholeBlockFrom(_, _, _)
WholeBlockFrom(name, from, depth) ==
    IF from > Len(hist) THEN <<>>
    ELSE (IF hist[from].target # name THEN <<>>
          ELSE IF hist[from].kind = "PASTE"
               THEN (IF depth = 0 THEN <<>>
                     ELSE WholeBlockFrom(hist[from].arg, 1, depth - 1))
               ELSE Fragments(hist[from].units))
            \o WholeBlockFrom(name, from + 1, depth)

WholeBlock(name) == WholeBlockFrom(name, 1, RecursionLimit)

\* C1: the text emitted at a PASTE:NAME site is all that the scan appended to
\* the block NAME, in every region whose target NAME was, before or after the
\* PASTE in the source; the output of a completed call is MAIN with every
\* PASTE site so expanded.
C1_PasteEmitsWholeBlock ==
    /\ \A k \in 1..Len(sites) :
          SubSeq(out, sites[k].from + 1, sites[k].to) = WholeBlock(sites[k].name)
    /\ Finished => out = WholeBlock(MAIN)

\* C1 witness: a completed call whose PASTE:NAME comes before the first
\* CUT:NAME, NAME being cut twice with an END in between, and text emitted at
\* the site
C1_Witness ==
    /\ Finished
    /\ \E p, c1, e, c2, l \in Entries :
          /\ p < c1 /\ c1 < e /\ e < c2 /\ c2 < l
          /\ hist[p].kind = "PASTE" /\ hist[p].target = MAIN
          /\ hist[c1].kind = "CUT" /\ hist[c1].arg = hist[p].arg
          /\ hist[e].kind = "END"
          /\ hist[c2].kind = "CUT" /\ hist[c2].arg = hist[p].arg
          /\ hist[l].kind = "literal" /\ hist[l].target = hist[p].arg
          /\ \A k \in 1..(c1 - 1) : hist[k].kind # "CUT"
    /\ \E k \in 1..Len(sites) : sites[k].to >= sites[k].from + 3

\* The names the CUT regions of the scan gave
CutNames == {hist[k].arg : k \in {j \in Entries : hist[j].kind = "CUT"}}

\* The blocks the walk of the output comes to: MAIN, and the blocks pasted in
\* a block it comes to
RECURSIVE ReachedFrom(_, _)
ReachedFrom(names, depth) ==
    LET more == names \cup {hist[k].arg : k \in {j \in Entries :
                               hist[j].kind = "PASTE" /\ hist[j].target \in names}}
    IN  IF depth = 0 \/ more = names THEN names ELSE ReachedFrom(more, depth - 1)

Reached == ReachedFrom({MAIN}, Len(hist))

\* C2 as claimed: a call never completes when a PASTE of the source names a
\* block that is neither MAIN nor the target of a CUT
C2_AnyUndefinedPasteFails ==
    Finished => \A k \in Entries :
        hist[k].kind = "PASTE" => hist[k].arg \in CutNames \cup {MAIN}

\* C2, amended: the undefined-block error is raised when the walk of the
\* output comes to a PASTE of a block that is neither MAIN nor the target of
\* a CUT, and only then; so a call never completes when such a PASTE is in
\* MAIN or in a block the walk comes to.
C2_ReachedUndefinedPasteFails ==
    /\ err = "KeyError" =>
          /\ pc = "failed"
          /\ Unit.type = "PASTE"
          /\ Unit.val \notin CutNames \cup {MAIN}
    /\ Finished => \A k \in Entries :
          (hist[k].kind = "PASTE" /\ hist[k].target \in Reached)
              => hist[k].arg \in CutNames \cup {MAIN}

\* C2 witness: the walk came to a PASTE of a block never cut, in a source
\* that cuts another block
C2_Witness == err = "KeyError" /\ CutNames # {}

\* C3 as claimed: the output assembly ends for every input; no call dies of
\* the nesting of its _output generators
C3_AssemblyTerminates == err # "RecursionError"

\* No start delimiter of the text is followed by an end delimiter
NoRegion ==
    \A o \in 0..Len(text) :
        StartsWithAt(text, o, StartDelimiter(lang)) =>
            \A q \in (o + Len(StartDelimiter(lang)))..Len(text) :
                ~IsMatch(MatchEndAt(lang, text, q))

\* C4: when no start delimiter of the text is followed by an end delimiter,
\* no region is accepted, nothing is yielded and no error is raised.
C4_NoRegionYieldsNothing ==
    NoRegion =>
        /\ hist = <<>>
        /\ out = <<>>
        /\ err = "none"
        /\ pc \in {"scan", "output", "done"}

\* C4 witness: a completed call on a text with a start delimiter, none of
\* them followed by an end delimiter
C4_Witness == Finished /\ NoRegion /\ i > 0 /\ out = <<>>

\* The directive grammar of the documentation, lines 135-161, read off a
\* processed text: after optional whitespace a keyword and a colon, at offset
\* k the argument
KeywordAt(t, keyword) ==
    StartsWithAt(t, SkipClass(t, 0, Whitespace), keyword \o <<":">>)

ArgumentAt(t, keyword) == SkipClass(t, 0, Whitespace) + Len(keyword) + 1

\* Where a well-formed directive of the keyword ends in t, -1 if t does not
\* begin with one
DirectiveEnd(t, keyword) ==
    LET a == ArgumentAt(t, keyword)
    IN  IF ~KeywordAt(t, keyword) THEN -1
        ELSE IF keyword = VERBATIM
             THEN (IF StartsWithAt(t, a, START) THEN a + Len(START)
                   ELSE IF StartsWithAt(t, a, END) THEN a + Len(END)
                   ELSE -1)
             ELSE (IF a < Len(t) /\ At(t, a) \in Upper
                   THEN SkipClass(t, a, NameChar) ELSE -1)

Keywords == {CUT, END, PASTE, VERBATIM}

\* t is a well-formed directive followed by other prose: after the directive
\* comes a character that is not whitespace
DirectiveThenProse(t) ==
    \E keyword \in Keywords :
        /\ DirectiveEnd(t, keyword) >= 0
        /\ \E o \in DirectiveEnd(t, keyword)..(Len(t) - 1) : At(t, o) \notin Whitespace

\* t begins with a keyword and a colon and is no well-formed directive
KeywordMalformed(t) ==
    \E keyword \in Keywords : KeywordAt(t, keyword) /\ DirectiveEnd(t, keyword) < 0

\* The region was handled by the branch of the literal fragments, lines
\* 298-306
TakenAsLiteral(k) ==
    \/ hist[k].kind = "literal"
    \/ hist[k].kind = "raise" /\ err = "IndexError"

\* What the scan left after the region k: the current block then
TargetAfter(k) == IF k < Len(hist) THEN hist[k + 1].target ELSE block

\* C5 as claimed: a region whose text is a well-formed directive followed by
\* other prose is taken as a literal fragment; it changes neither the
\* current block nor the verbatim marker and creates no block
C5_DirectiveThenProseIsLiteral ==
    \A k \in Entries : DirectiveThenProse(hist[k].t) =>
        /\ TakenAsLiteral(k)
        /\ TargetAfter(k) = hist[k].target

\* C6 as claimed: a region whose text begins with a keyword and does not
\* match the grammar of that keyword makes extract fail at once
C6_MalformedDirectiveFails ==
    \A k \in Entries : KeywordMalformed(hist[k].t) =>
        /\ k = Len(hist)
        /\ pc = "failed"
        /\ err = "Exception"

\* C6, amended: a region whose text begins with a keyword and does not match
\* the grammar of that keyword is no command: it is handled as any literal
\* fragment (its text is appended to the current block), and no call raises
\* the unsupported-command exception.
C6_MalformedDirectiveIsLiteral ==
    /\ err # "Exception"
    /\ \A k \in Entries : KeywordMalformed(hist[k].t) =>
          /\ TakenAsLiteral(k)
          /\ TargetAfter(k) = hist[k].target
          /\ hist[k].kind = "literal" =>
                LET unit == hist[k].units[Len(hist[k].units)]
                IN  /\ unit.type = "str"
                    /\ unit.val \in {ProcessBlock(hist[k].t), ProcessBlock(Tail(hist[k].t))}

\* C6 witness: a completed call that yielded the text of such a region
C6_Witness ==
    /\ Finished
    /\ \E k \in Entries :
          /\ KeywordMalformed(hist[k].t)
          /\ hist[k].kind = "literal"
          /\ \E j \in 1..Len(out) : out[j] = hist[k].t

\* C7 as claimed: the start delimiter of an accepted region never begins
\* before the end of the region accepted before it
C7_RegionsDoNotOverlap ==
    \A k \in 2..Len(hist) : hist[k].sStart >= hist[k - 1].eEnd

\* The block the directives before region k make the current one: the name
\* of the last CUT if no END follows it, else MAIN
RECURSIVE CutOpenBefore(_)
CutOpenBefore(k) ==
    IF k <= 1 THEN MAIN
    ELSE IF hist[k - 1].kind = "CUT" THEN hist[k - 1].arg
    ELSE IF hist[k - 1].kind = "END" THEN MAIN
    ELSE CutOpenBefore(k - 1)

\* All the units the scan appended to the block name
RECURSIVE AppendedFrom(_, _)
AppendedFrom(name, from) ==
    IF from > Len(hist) THEN <<>>
    ELSE (IF hist[from].target = name THEN hist[from].units ELSE <<>>)
            \o AppendedFrom(name, from + 1)

\* C8: what a region appends goes to the block of the last CUT before it
\* that no END follows, and to no other block (MAIN if there is none); a
\* block no PASTE names puts nothing in the output.
C8_CutCollectsFragments ==
    /\ \A k \in Entries : hist[k].target = CutOpenBefore(k)
    /\ block = CutOpenBefore(Len(hist) + 1)
    /\ \A name \in DOMAIN blocks : blocks[name] = AppendedFrom(name, 1)
    /\ \A j \in 1..Len(outFrom) :
          outFrom[j] # MAIN =>
              \E k \in Entries : hist[k].kind = "PASTE" /\ hist[k].arg = outFrom[j]

\* C8 witness: a completed call with output, a literal fragment of which went
\* to a block that is not MAIN and that no PASTE names
C8_Witness ==
    /\ Finished
    /\ out # <<>>
    /\ \E k \in Entries :
          /\ hist[k].kind = "literal"
          /\ hist[k].target # MAIN
          /\ \A j \in Entries : ~(hist[j].kind = "PASTE" /\ hist[j].arg = hist[k].target)
          /\ \A j \in 1..Len(outFrom) : outFrom[j] = MAIN

\* C9: after a region that is an END directive the current block is MAIN,
\* whatever the name; the region raises nothing, appends nothing and creates
\* no block: the blocks of the table are MAIN and those a CUT named.
C9_EndRevertsToMain ==
    /\ \A k \in Entries : DirectiveEnd(hist[k].t, END) >= 0 =>
          /\ hist[k].kind = "END"
          /\ hist[k].units = <<>>
          /\ TargetAfter(k) = MAIN
    /\ DOMAIN blocks = CutNames \cup {MAIN}

\* C9 witness: an END:X after the CUT of another block, X being no block
C9_Witness ==
    \E k \in Entries :
        /\ hist[k].kind = "END"
        /\ hist[k].target # MAIN
        /\ hist[k].target # hist[k].arg
        /\ hist[k].arg \notin DOMAIN blocks
        /\ k < Len(hist)

\* The regions of the scan were literal fragments, CUT, END and PASTE only
OnlyLiterals ==
    \A k \in Entries : hist[k].kind \in {"literal", "CUT", "END", "PASTE"}

\* C10 as claimed: with the newlines option, a literal fragment of the output
\* that further text follows ends with a newline, or the newline fragment
\* follows it
C10_FragmentsNewlineTerminated ==
    (Finished /\ newlines /\ OnlyLiterals) =>
        \A j \in 1..(Len(out) - 1) :
            (out[j] # <<>> /\ out[j + 1] # <<>>) =>
                \/ out[j][Len(out[j])] = "\n"
                \/ out[j + 1] = <<"\n">>

\* The unit of the synthetic newline, line 305
NewlineUnit == StrUnit(<<"\n">>)

\* The region k took the literal branch and the newline was put before its text
NewlineInserted(k) ==
    /\ hist[k].kind = "literal"
    /\ Len(hist[k].units) >= 2
    /\ hist[k].units[Len(hist[k].units) - 1] = NewlineUnit

\* The region k is the first the scan accepted, its text begins with a
\* newline, and the unit appended for it has lost that newline
LeadingNewlineDropped(k) ==
    /\ k = 1
    /\ hist[k].kind = "literal"
    /\ hist[k].t # <<>>
    /\ hist[k].t[1] = "\n"
    /\ hist[k].units[Len(hist[k].units)].val = ProcessBlock(Tail(hist[k].t))

\* C11 as claimed: a profile constructed with newlines = false inserts no
\* newline unit, one constructed with strip = false keeps the leading
\* newline of the first region, and without options both are true
C11_OptionsHonoured ==
    /\ (args.given /\ ~args.newlines) => \A k \in Entries : ~NewlineInserted(k)
    /\ (args.given /\ ~args.strip) => \A k \in Entries : ~LeadingNewlineDropped(k)
    /\ ~args.given => (newlines /\ strip)

\* Where the first end delimiter at or after o begins that is no part of an
\* escaped one, -1 if there is none: escaped delimiters are passed over whole
RECURSIVE UnescapedEnd(_, _, _)
UnescapedEnd(l, source, o) ==
    IF o >= Len(source) THEN -1
    ELSE IF StartsWithAt(source, o, EscapedEnd(l))
         THEN UnescapedEnd(l, source, o + Len(EscapedEnd(l)))
    ELSE IF StartsWithAt(source, o, EndDelimiter(l)) THEN o
    ELSE UnescapedEnd(l, source, o + 1)

\* An escaped end delimiter lies in the text between the offsets a and b
HoldsEscapedEnd(l, source, a, b) ==
    \E o \in a..(b - Len(EscapedEnd(l))) : StartsWithAt(source, o, EscapedEnd(l))

\* C12 as claimed: in the Python profile a region ends with the first end
\* delimiter that is not part of an escaped one, and the escaped end
\* delimiters of its interior are in the fragment as the plain delimiter
C12_EscapedEndDelimiter ==
    lang = "Python" =>
        \A k \in Entries :
            LET c == UnescapedEnd(lang, text, hist[k].sEnd)
            IN  /\ hist[k].eEnd = c + Len(EndDelimiter(lang))
                /\ (hist[k].kind = "literal"
                        /\ HoldsEscapedEnd(lang, text, hist[k].sEnd, c)) =>
                      hist[k].units[Len(hist[k].units)].val =
                          Replace(Slice(text, hist[k].sEnd, c),
                                  EscapedEnd(lang), EndDelimiter(lang))

\* The region that opened the verbatim span the region k closes: the last
\* VERBATIM:START before k that no VERBATIM:END follows, 0 if there is none
RECURSIVE OpenStart(_)
OpenStart(k) ==
    IF k <= 1 THEN 0
    ELSE IF hist[k - 1].kind = "VERBATIM:START" THEN k - 1
    ELSE IF hist[k - 1].kind = "VERBATIM:END" THEN 0
    ELSE OpenStart(k - 1)

\* Where the line begins that holds the offset o
RECURSIVE LineStart(_, _)
LineStart(source, o) ==
    IF o <= 0 \/ At(source, o - 1) \in EOLS THEN Max(o, 0)
    ELSE LineStart(source, o - 1)

\* The run of spaces and tabs that indents the line of the offset o
IndentOf(source, o) ==
    Slice(source, LineStart(source, o), SkipClass(source, LineStart(source, o), Blank))

\* The captured lines that do not match the strip pattern, each without the
\* indent at its start
RECURSIVE KeptWithout(_, _, _)
KeptWithout(l, lines, indent) ==
    IF lines = <<>> THEN <<>>
    ELSE (IF StripMatchEnd(l, lines[1], 0) >= 0 THEN <<>>
          ELSE IF StartsWithAt(lines[1], 0, indent)
               THEN <<SliceFrom(lines[1], Len(indent))>>
               ELSE <<lines[1]>>)
             \o KeptWithout(l, Tail(lines), indent)

\* Every line either begins with the indent or is empty
AllIndented(lines, indent) ==
    \A n \in 1..Len(lines) : lines[n] = <<>> \/ StartsWithAt(lines[n], 0, indent)

\* The raw source the VERBATIM:END region k captures
Captured(k) == Slice(text, hist[k - 1].eEnd, hist[k].sStart)

\* C13 as claimed: the fragment of a VERBATIM:END is made of the captured
\* lines that do not match the strip pattern, each without the run of spaces
\* and tabs that indents the VERBATIM:START marker
C13_VerbatimDeindented ==
    \A k \in Entries :
        (hist[k].kind = "VERBATIM:END" /\ OpenStart(k) > 0) =>
            LET indent == IndentOf(text, hist[OpenStart(k)].sStart)
                lines  == SplitLines(Captured(k))
                kept   == JoinLines(KeptWithout(lang, lines, indent))
            IN  AllIndented(lines, indent) =>
                    \/ hist[k].units = <<StrUnit(kept)>>
                    \/ /\ kept # <<>>
                       /\ kept[1] = "\n"
                       /\ hist[k].units = <<StrUnit(Tail(kept))>>

\* How many backslashes the text holds
RECURSIVE Backslashes(_)
Backslashes(t) ==
    IF t = <<>> THEN 0
    ELSE (IF t[1] = "\\" THEN 1 ELSE 0) + Backslashes(Tail(t))

\* The captured lines that do not match the strip pattern
RECURSIVE KeptLines(_, _)
KeptLines(l, lines) ==
    IF lines = <<>> THEN <<>>
    ELSE (IF StripMatchEnd(l, lines[1], 0) >= 0 THEN <<>> ELSE <<lines[1]>>)
             \o KeptLines(l, Tail(lines))

\* C14 as claimed: the raw source of an open verbatim span is emitted with its
\* backslash sequences unchanged, both before a region that is no directive,
\* where it is the captured text itself, and at VERBATIM:END
C14_VerbatimKeepsBackslashes ==
    \A k \in Entries :
        /\ (hist[k].kind = "literal" /\ OpenStart(k) > 0) =>
              hist[k].units[1] = StrUnit(Captured(k))
        /\ (hist[k].kind = "VERBATIM:END" /\ OpenStart(k) > 0) =>
              Backslashes(hist[k].units[1].val) =
                  Backslashes(JoinLines(KeptLines(lang, SplitLines(Captured(k)))))

\* The fragments a call has yielded are the first of those it yields alone
YieldsAsAlone(frame) ==
    /\ frame.lang = alone[frame.id].lang
    /\ Len(frame.out) <= Len(alone[frame.id].out)
    /\ frame.out = SubSeq(alone[frame.id].out, 1, Len(frame.out))
    /\ Ended(frame) =>
          /\ frame.out = alone[frame.id].out
          /\ frame.err = alone[frame.id].err

\* C15: of two calls whose steps are interleaved, each yields the fragments,
\* and ends with the outcome, it has when it runs alone; no step changes the
\* profile of a call or the tables COMMANDS and LANGUAGES.
C15_CallsDoNotInterfere ==
    /\ tables = ModuleTables
    /\ newlines = InitNewlines(args)
    /\ strip = InitStrip(args)
    /\ Len(alone) = 2 =>
          /\ YieldsAsAlone(Frame(Running))
          /\ YieldsAsAlone(other)

\* C15 witness: both calls have yielded a fragment and neither has ended
C15_Witness ==
    /\ Len(alone) = 2
    /\ pc = "output"
    /\ out # <<>>
    /\ other.pc = "output"
    /\ other.out # <<>>

\* The extensions the documentation and LANGUAGES register
Registered ==
    { <<"c">>, <<"c", "p", "p">>, <<"h">>, <<"j", "s">>, <<"p", "y">>,
      <<"s", "j", "s">>, <<"s", "p", "y">>, <<"p", "a", "m", "l">> }

\* C16 as claimed: once run has selected the profile of a file, a file whose
\* extension is not registered has none and run fails on the assertion
\* without extracting anything; a file has a profile only if its extension is
\* registered
C16_UnregisteredHasNoProfile ==
    (filename # NoFile /\ pc # "run") =>
        /\ Extension(filename) \notin Registered =>
              /\ language = "None"
              /\ pc \in {"selected", "failed"}
              /\ pc = "failed" => err = "AssertionError"
        /\ language # "None" => Extension(filename) \in Registered

\* The marker the regions before k leave: the offset after the end
\* delimiter of the VERBATIM:START that opened the span, NoOffset if no span
\* is open
MarkerBefore(k) == IF OpenStart(k) = 0 THEN NoOffset ELSE hist[OpenStart(k)].eEnd

\* C17: the marker is the offset after the end delimiter of the last
\* VERBATIM:START that no VERBATIM:END follows; a VERBATIM:END appends to the
\* current block one fragment, made of the source between the later of the
\* marker and the end of the region accepted before it, and its own start
\* delimiter, and leaves no marker.
C17_LastStartWins ==
    /\ verbatim = MarkerBefore(Len(hist) + 1)
    /\ \A k \in Entries : hist[k].kind = "VERBATIM:END" =>
          /\ OpenStart(k) > 0
          /\ MarkerBefore(k + 1) = NoOffset
          /\ TargetAfter(k) = hist[k].target
          /\ hist[k].units =
                <<StrUnit(ProcessVerbatim(lang, text,
                                          Max(MarkerBefore(k), hist[k - 1].eEnd),
                                          hist[k].sStart, MarkerBefore(k)))>>

\* C17 witness: a completed call in which a VERBATIM:END closed a span that
\* two VERBATIM:START of different indents had opened
C17_Witness ==
    /\ Finished
    /\ \E k \in Entries :
          /\ hist[k].kind = "VERBATIM:END"
          /\ OpenStart(k) > 0
          /\ OpenStart(OpenStart(k)) > 0
          /\ LeadingIndent(text, MarkerBefore(k) - 1, <<>>)
                # LeadingIndent(text, MarkerBefore(OpenStart(k)) - 1, <<>>)
          /\ hist[k].units[1].val # <<>>

\* t is a well-formed directive of the keyword and nothing else but
\* whitespace
ExactDirective(t, keyword) ==
    /\ DirectiveEnd(t, keyword) >= 0
    /\ \A o \in DirectiveEnd(t, keyword)..(Len(t) - 1) : At(t, o) \in Whitespace

\* The directive without the whitespace around it
DirectiveText(t, keyword) ==
    Slice(t, SkipClass(t, 0, Whitespace), DirectiveEnd(t, keyword))

\* The name a directive gives
DirectiveName(t, keyword) == Slice(t, ArgumentAt(t, keyword), DirectiveEnd(t, keyword))

\* The marker the region k leaves
MarkerAfter(k) == IF k < Len(hist) THEN hist[k + 1].marker ELSE verbatim

\* C18: a region that is a CUT, an END or a VERBATIM:START appends no unit; a
\* PASTE:NAME appends the one unit (PASTE, NAME) to the current block and
\* leaves the current block and the verbatim marker as they are; the blocks
\* hold the units the regions appended, in order, and nothing else; no
\* fragment of the output holds the text of a directive.
C18_DirectivesOnlyTheirEffect ==
    /\ \A k \in Entries :
          /\ (\/ ExactDirective(hist[k].t, CUT)
              \/ ExactDirective(hist[k].t, END)
              \/ /\ ExactDirective(hist[k].t, VERBATIM)
                 /\ DirectiveName(hist[k].t, VERBATIM) = START) =>
                hist[k].units = <<>>
          /\ ExactDirective(hist[k].t, PASTE) =>
                /\ hist[k].units =
                      <<[type |-> "PASTE", val |-> DirectiveName(hist[k].t, PASTE)]>>
                /\ TargetAfter(k) = hist[k].target
                /\ MarkerAfter(k) = hist[k].marker
          /\ \A keyword \in Keywords : ExactDirective(hist[k].t, keyword) =>
                \A j \in 1..Len(out) :
                    Find(out[j], DirectiveText(hist[k].t, keyword), 0) < 0
    /\ \A name \in DOMAIN blocks : blocks[name] = AppendedFrom(name, 1)

\* C18 witness: a completed call with output in which a block that held a
\* fragment was cut again, and pasted
C18_Witness ==
    /\ Finished
    /\ out # <<>>
    /\ \E k \in Entries :
          /\ ExactDirective(hist[k].t, CUT)
          /\ \E j \in 1..(k - 1) :
                hist[j].kind = "literal" /\ hist[j].target = DirectiveName(hist[k].t, CUT)
          /\ \E j \in Entries :
                /\ ExactDirective(hist[j].t, PASTE)
                /\ DirectiveName(hist[j].t, PASTE) = DirectiveName(hist[k].t, CUT)
          /\ \E n \in 1..Len(outFrom) : outFrom[n] = DirectiveName(hist[k].t, CUT)

\* C19 as claimed, the recursion of C3 set aside: a call completes or fails
\* with the undefined-block or the unsupported-directive error only; an empty
\* region and a VERBATIM:END without an open span raise nothing
C19_OnlyDocumentedErrors ==
    err \in {"none", "KeyError", "Exception", "RecursionError"}

====
